---- MODULE Spec2Model ----
(***************************************************************************)
(* Session state machine of the short-answer question generator            *)
(* (src/main_script.py).  The program is one Streamlit script: every user  *)
(* interaction (and every st.rerun()) executes it from the top with the    *)
(* session state left by the previous execution.  One action of this       *)
(* module is one execution of the script, from line 1 to its end or to the *)
(* st.rerun() that cuts it short.                                          *)
(*                                                                         *)
(* Text is a sequence of characters, so that str.strip() and the f-string  *)
(* joins of the script are computed, not assumed.  List positions are      *)
(* 1-based here and 0-based in the script (position i here is index i-1).  *)
(***************************************************************************)
EXTENDS Integers, Sequences, FiniteSets, TLC

VARIABLES
    \* st.session_state
    question_set_id,     \* round counter, part of every per-question widget key
    questions,           \* active question set
    user_answers,        \* one text per active question
    evaluations,         \* result of the last scoring call
    all_question_sets,   \* history of generated sets (absent and [] read alike)
    current_set_id,      \* set_id of the active set, NoSet for Python's None
    generate_now,        \* a generation has been requested
    mode,                \* "idle" | "generate"
    pdf_text,            \* cached text of the uploaded document
    uploaded_file_name,  \* name the cached text was extracted from
    ans,                 \* text areas: <<question_set_id, i>> -> text  (key ans_<qid>_<i>)
    last_audio_hash,     \* i -> hash of the last recording merged at position i
    \* widget values held by the browser
    uploaded_file,       \* the file in the uploader, NoFile when empty
    num_questions,       \* the slider
    audio,               \* audio inputs: <<question_set_id, i>> -> recording
    \* what the last execution of the script did
    stop,                \* "end" | "rerun" | "crash"
    trigger,             \* the interaction that started it
    msgs,                \* messages it showed
    calls,               \* requests it sent to the external services
    pre                  \* session state when a generate button was pressed

vars == <<question_set_id, questions, user_answers, evaluations, all_question_sets,
          current_set_id, generate_now, mode, pdf_text, uploaded_file_name, ans,
          last_audio_hash, uploaded_file, num_questions, audio,
          stop, trigger, msgs, calls, pre>>

----------------------------------------------------------------------------
(* Bounds of the exploration *)

MaxItems == 2      \* longest list an LLM response holds
MaxRounds == 2     \* generate-button presses explored
MaxLen == 6        \* longest answer text explored
MaxRec == 1        \* distinct recordings the user can submit
MaxSlider == 2     \* slider positions explored (the slider itself goes to 10)

----------------------------------------------------------------------------
(* Text *)

SP == " "
Str(c) == <<c>>
EmptyStr == <<>>

RECURSIVE LStrip(_)
LStrip(s) == IF s # <<>> /\ Head(s) = SP THEN LStrip(Tail(s)) ELSE s

RECURSIVE RStrip(_)
RStrip(s) == IF s # <<>> /\ s[Len(s)] = SP THEN RStrip(SubSeq(s, 1, Len(s) - 1)) ELSE s

\* str.strip()
Strip(s) == RStrip(LStrip(s))

\* f"{a} {b}"
Join(a, b) == a \o <<SP>> \o b

\* truth value of a str
Truthy(s) == s # <<>>

----------------------------------------------------------------------------
(* The outside world: documents, recordings, service responses *)

NoSet == -1                          \* current_set_id = None
NoFile == [name |-> "", text |-> <<>>]   \* uploaded_file is None
NoHash == <<>>                       \* last_audio_hash_<i> = None
NoAudio == 0                         \* audio_data is None
SliderMin == 1                       \* the slider's lowest and initial position

\* A file is its name and the text extract_text_from_pdf returns for it;
\* a scanned document yields the empty text.
TextFile == [name |-> "f1", text |-> Str("d")]
ScannedFile == [name |-> "f2", text |-> EmptyStr]
Files == { TextFile, ScannedFile }

Recordings == 1..MaxRec

\* hashlib.sha256(audio_bytes).hexdigest(): one digest per payload
Sha256(a) == <<"sha256", a>>

\* What client.audio.transcriptions.create can do: raise, or return a text.
TranscriptionOutcomes ==
    { [kind |-> "error"],
      [kind |-> "text", text |-> <<SP, "b">>],
      [kind |-> "text", text |-> <<SP>>] }

\* Elements of the JSON list the generation model returns.  A field the
\* object lacks is absent from the record; NotObject is an element that is
\* no JSON object (item.get raises AttributeError).
NotObject == [notobject |-> TRUE]
GoodItem == [topic |-> Str("a"), question |-> Str("q"), answer_key |-> Str("k")]
LlmItems ==
    { [topic |-> Str("a"), question |-> Str("q"), answer_key |-> Str("k")],
      [topic |-> <<SP, "b">>, question |-> <<"q", SP>>, answer_key |-> Str("k")],
      [topic |-> Str("c"), question |-> <<SP>>, answer_key |-> Str("k")],
      [topic |-> Str("d"), answer_key |-> EmptyStr],
      [topic |-> <<SP>>, question |-> Str("q"), answer_key |-> Str("k")],
      NotObject }

RECURSIVE SeqsUpTo(_, _)
SeqsUpTo(S, n) ==
    IF n = 0 THEN { <<>> }
    ELSE LET shorter == SeqsUpTo(S, n - 1)
         IN  shorter \cup { Append(q, x) : q \in shorter, x \in S }

\* What the generation call can produce: an exception from the client or
\* from json.loads ("error"), JSON that is no list ("nonlist"), or a list.
GenerationResponses(items) ==
    { [kind |-> "error"], [kind |-> "nonlist"] }
      \cup { [kind |-> "list", items |-> l] : l \in SeqsUpTo(items, MaxItems) }

\* Elements of the list the scoring model returns.
EvalItems == { [score |-> 7] }

ScoringResponses ==
    { [kind |-> "error"] }
      \cup { [kind |-> "list", items |-> l] : l \in SeqsUpTo(EvalItems, MaxItems) }

\* Every shape of element the scoring model can return: a score, an object
\* without "score", an object whose "score" is no number (null, a string),
\* and an element that is no JSON object.
NonNumericScore == [score_text |-> Str("7")]
ScoreItems == { [score |-> 7], [feedback |-> Str("f")], NonNumericScore, NotObject }

\* What the scoring call can produce: an exception from the client or from
\* json.loads ("error"), a list, or JSON that is no list ("nonlist": an
\* object or a string, which is non-empty and yields strings when iterated).
AllScoringResponses ==
    { [kind |-> "error"], [kind |-> "nonlist"] }
      \cup { [kind |-> "list", items |-> l] : l \in SeqsUpTo(ScoreItems, MaxItems) }

\* The environments explored: every interaction on one document with
\* well-formed questions; generation on every document and every shape of
\* response; evaluation with every shape of response.
Answering == [files |-> {TextFile}, gen |-> GenerationResponses({GoodItem}),
              eval |-> ScoringResponses]
Generating == [files |-> Files, gen |-> GenerationResponses(LlmItems),
               eval |-> ScoringResponses]
Scoring == [files |-> {TextFile}, gen |-> GenerationResponses({GoodItem}),
            eval |-> AllScoringResponses]

NoResponse == [kind |-> "none"]

----------------------------------------------------------------------------
(* The script, section by section.  s is st.session_state together with   *)
(* what the execution has shown and sent so far.                          *)

Show(s, m) == [s EXCEPT !.msgs = @ \cup {m}]

\* F(x), with x computed once
Then(x, F(_)) == CHOOSE r \in { F(y) : y \in {x} } : TRUE

\* item.get(f, "") and item.get(f): both are falsy and strip to "" when f is absent
Get(item, f) == IF f \in DOMAIN item THEN item[f] ELSE EmptyStr

\* lines 70-88: PDF upload, text cached by file name
UploadSection(s, file) ==
    IF file # NoFile /\ s.uploaded_file_name # file.name
    THEN Show([s EXCEPT !.pdf_text = file.text, !.uploaded_file_name = file.name],
              <<"pdf_uploaded", 0>>)
    ELSE s

\* lines 114-122: get_used_topics (the sorted list is read as the set it lists)
UsedTopicsOf(sets) ==
    UNION { { sets[k].topics[j] : j \in 1..Len(sets[k].topics) } : k \in 1..Len(sets) }

get_used_topics == UsedTopicsOf(all_question_sets)

\* lines 138-148 without the "if not pdf_text:" of line 139
GenerateButtonUnguarded(s, pressed) ==
    IF ~pressed THEN s
    ELSE [s EXCEPT !.generate_now = TRUE,
                   !.question_set_id = @ + 1,
                   !.stop = "rerun"]

\* lines 138-148: the "Generate Questions" button
GenerateButton(s, pressed) ==
    IF ~pressed THEN s
    ELSE IF ~Truthy(s.pdf_text) THEN Show(s, <<"cannot_generate", 0>>)
    ELSE [s EXCEPT !.generate_now = TRUE,
                   !.question_set_id = @ + 1,
                   !.stop = "rerun"]

\* line 254: the filter of the comprehension
KeepItem(item) == Truthy(Get(item, "question")) /\ Truthy(Get(item, "answer_key"))

\* lines 249-251: the element of the comprehension
NormalizeItem(item) ==
    [topic |-> Strip(Get(item, "topic")),
     question |-> Strip(Get(item, "question")),
     answer_key |-> Strip(Get(item, "answer_key"))]

\* lines 246-255
Normalize(all_items) ==
    LET kept == SelectSeq(all_items, KeepItem)
    IN  [k \in 1..Len(kept) |-> NormalizeItem(kept[k])]

\* lines 236-261: all_questions, [] when anything raised
Raises(resp) ==
    \/ resp.kind \in {"error", "nonlist"}
    \/ resp.kind = "list" /\ \E k \in 1..Len(resp.items) : "notobject" \in DOMAIN resp.items[k]

AllQuestions(resp) == IF Raises(resp) THEN <<>> ELSE Normalize(resp.items)

\* the topic labels a response carries
Offered(resp) ==
    IF resp.kind # "list" THEN {}
    ELSE { Strip(Get(resp.items[k], "topic")) : k \in 1..Len(resp.items) } \ {EmptyStr}

\* line 279 without its "if q.get('topic')"
TopicsOfUnfiltered(all_questions) ==
    [k \in 1..Len(all_questions) |-> all_questions[k].topic]

\* line 279
TopicsOf(all_questions) ==
    LET named == SelectSeq(all_questions, LAMBDA q : Truthy(q.topic))
    IN  [k \in 1..Len(named) |-> named[k].topic]

\* lines 263-292 with new_set_id taken from the round counter at line 282
SaveQuestionsNumberedByRound(s, all_questions) ==
    IF all_questions = <<>> THEN s
    ELSE LET new_set_id == s.question_set_id
         IN  Show([s EXCEPT
                 !.questions = all_questions,
                 !.user_answers = [k \in 1..Len(all_questions) |-> EmptyStr],
                 !.all_question_sets =
                     Append(@, [set_id |-> new_set_id,
                                questions |-> all_questions,
                                topics |-> TopicsOf(all_questions)]),
                 !.current_set_id = new_set_id], <<"generated", 0>>)

\* lines 263-292 without line 291
SaveQuestionsKeepingCurrentId(s, all_questions) ==
    IF all_questions = <<>> THEN s
    ELSE LET new_set_id == Len(s.all_question_sets)
         IN  Show([s EXCEPT
                 !.questions = all_questions,
                 !.user_answers = [k \in 1..Len(all_questions) |-> EmptyStr],
                 !.all_question_sets =
                     Append(@, [set_id |-> new_set_id,
                                questions |-> all_questions,
                                topics |-> TopicsOf(all_questions)])], <<"generated", 0>>)

\* lines 263-292: save the set and append it to the history
\* (the timestamp of the history entry is wall-clock time and is left out)
SaveQuestions(s, all_questions) ==
    IF all_questions = <<>> THEN s
    ELSE LET new_set_id == Len(s.all_question_sets)
         IN  Show([s EXCEPT
                 !.questions = all_questions,
                 !.user_answers = [k \in 1..Len(all_questions) |-> EmptyStr],
                 !.all_question_sets =
                     Append(@, [set_id |-> new_set_id,
                                questions |-> all_questions,
                                topics |-> TopicsOf(all_questions)]),
                 !.current_set_id = new_set_id], <<"generated", 0>>)

\* lines 150-292: consume generate_now, one request, parse, save
Generation(s, n, resp) ==
    Then([s EXCEPT !.generate_now = FALSE,
                   !.calls.gen = Append(@, [doc |-> s.pdf_text, n |-> n,
                                            offered |-> Offered(resp)])],
         LAMBDA s1 :
             Then(IF Raises(resp) THEN Show(s1, <<"generation_failed", 0>>) ELSE s1,
                  LAMBDA s2 : SaveQuestions(s2, AllQuestions(resp))))

\* lines 127-292
GenerationSection(s, file, n, pressed, resp) ==
    IF file = NoFile THEN s
    ELSE Then(GenerateButton(s, pressed),
              LAMBDA s1 : IF s1.stop = "rerun" \/ ~s1.generate_now THEN s1
                          ELSE Generation(s1, n, resp))

\* ans_<qid>_<i> as st.session_state.get(key, "") reads it
Field(s, i) ==
    LET key == <<s.question_set_id, i>>
    IN  IF key \in DOMAIN s.ans THEN s.ans[key] ELSE EmptyStr

SetField(s, i, text) ==
    LET key == <<s.question_set_id, i>>
    IN  [s EXCEPT !.ans = [k \in DOMAIN @ \cup {key} |-> IF k = key THEN text ELSE @[k]]]

\* f with x mapped to v
Sent(f, x, v) == [k \in DOMAIN f \cup {x} |-> IF k = x THEN v ELSE f[k]]

\* lines 344-360: merge the transcript into the text area
MergeTranscript(s, i, audio_hash, dictated_text) ==
    IF Truthy(dictated_text)
    THEN LET existing_text == Strip(Field(s, i))
             new_text == IF Truthy(existing_text)
                         THEN Join(existing_text, dictated_text)
                         ELSE dictated_text
         IN  Show([SetField(s, i, new_text) EXCEPT
                      !.user_answers[i] = new_text,
                      !.last_audio_hash[i] = audio_hash],
                  <<"dictation_appended", i>>)
    ELSE Show(s, <<"empty_transcription", i>>)

\* lines 322-363: the audio input of question i.  The result carries
\* dictated_text, the local variable read again at line 369.
Dictation(s, i, audio_data, outcome) ==
    IF audio_data = NoAudio THEN [s EXCEPT !.dictated_text = EmptyStr]
    ELSE LET audio_hash == Sha256(audio_data)
         IN  IF s.last_audio_hash[i] = audio_hash
             THEN Show([s EXCEPT !.dictated_text = EmptyStr], <<"already_transcribed", i>>)
             ELSE Then([s EXCEPT !.calls.transcribe =
                           Sent(@, i, [outcome |-> outcome, field |-> Field(s, i)])],
                       LAMBDA s1 :
                           IF outcome.kind = "error"
                           THEN Show([s1 EXCEPT !.dictated_text = EmptyStr],
                                     <<"transcription_failed", i>>)
                           ELSE LET dictated_text == Strip(outcome.text)
                                IN  [MergeTranscript(s1, i, audio_hash, dictated_text)
                                        EXCEPT !.dictated_text = dictated_text])

\* lines 365-376: the text area of question i
TextArea(s, i) ==
    LET existing_text == Strip(Field(s, i))
        new_text == IF Truthy(existing_text)
                    THEN Join(existing_text, s.dictated_text)
                    ELSE s.dictated_text
    IN  [SetField(s, i, new_text) EXCEPT !.user_answers[i] = new_text]

\* the recording in audio_input_<qid>_<i>
AudioData(s, aud, i) ==
    LET key == <<s.question_set_id, i>>
    IN  IF key \in DOMAIN aud THEN aud[key] ELSE NoAudio

\* lines 305-376: the loop over the questions, from position i on
RECURSIVE AnswerLoop(_, _, _, _)
AnswerLoop(s, i, aud, tr) ==
    IF i > Len(s.questions) THEN s
    ELSE LET audio_data == AudioData(s, aud, i)
             outcome == IF i \in DOMAIN tr THEN tr[i] ELSE NoResponse
         IN  Then(Dictation(s, i, audio_data, outcome),
                  LAMBDA s1 : Then(TextArea(s1, i),
                                   LAMBDA s2 : AnswerLoop(s2, i + 1, aud, tr)))

\* lines 302-303: user_answers repaired to the length of questions
RepairAnswers(s) ==
    IF Len(s.user_answers) # Len(s.questions)
    THEN [s EXCEPT !.user_answers = [k \in 1..Len(s.questions) |-> EmptyStr]]
    ELSE s

\* lines 383-442: score_short_answers.  One request carrying the zipped
\* pairs; the parsed list, or [] when the call or json.loads raised.
score_short_answers(answers, qs, resp) ==
    [pairs |-> IF Len(qs) < Len(answers) THEN Len(qs) ELSE Len(answers),
     results |-> IF resp.kind = "list" THEN resp.items
                 ELSE IF resp.kind = "nonlist" THEN <<NotObject>>
                 ELSE <<>>,
     failed  |-> resp.kind = "error"]

\* line 453: r.get("score", 0) raises for an element that is no object, and
\* sum raises for a score that is no number
SumRaises(results) ==
    \E k \in 1..Len(results) :
        "notobject" \in DOMAIN results[k] \/ "score_text" \in DOMAIN results[k]

\* lines 453-476: the total score and the feedback.  The execution ends
\* in an uncaught exception when the sum raises or the maximum is zero.
TotalScore(s, results) ==
    IF SumRaises(results) THEN Show([s EXCEPT !.stop = "crash"], <<"exception", 0>>)
    ELSE LET max_score == Len(results) * 10
         IN  IF max_score = 0
             THEN Show([s EXCEPT !.stop = "crash"], <<"zero_division", 0>>)
             ELSE Show(Show(s, <<"total_score", max_score>>), <<"evaluation_complete", 0>>)

\* lines 444-447: the scoring request and line 447
Evaluated(s, r) ==
    [s EXCEPT !.calls.score = Append(@, [pairs |-> r.pairs, prior |-> s.evaluations,
                                         asked |-> Len(s.questions),
                                         answered |-> Len(s.user_answers)]),
              !.evaluations = r.results,
              !.msgs = @ \cup (IF r.failed THEN {<<"scoring_failed", 0>>} ELSE {})]

\* lines 444-476 with line 447 moved under "if results:"
EvaluateButtonKeeping(s, pressed, resp) ==
    IF ~pressed THEN s
    ELSE LET r == score_short_answers(s.user_answers, s.questions, resp)
             s1 == [Evaluated(s, r) EXCEPT
                       !.evaluations = IF r.results # <<>> THEN r.results ELSE s.evaluations]
         IN  IF r.results # <<>> THEN TotalScore(s1, r.results) ELSE s1

\* lines 444-476 without the "if results:" of line 449
EvaluateButtonUnguarded(s, pressed, resp) ==
    IF ~pressed THEN s
    ELSE LET r == score_short_answers(s.user_answers, s.questions, resp)
         IN  TotalScore(Evaluated(s, r), r.results)

\* lines 444-476: the "Evaluate My Answers" button
EvaluateButton(s, pressed, resp) ==
    IF ~pressed THEN s
    ELSE LET r == score_short_answers(s.user_answers, s.questions, resp)
         IN  IF r.results # <<>> THEN TotalScore(Evaluated(s, r), r.results)
             ELSE Evaluated(s, r)

\* lines 481-488 without line 483
NewSetButtonKeepingAnswers(s, pressed) ==
    IF ~pressed THEN s
    ELSE [s EXCEPT !.questions = <<>>,
                   !.evaluations = <<>>,
                   !.mode = "generate",
                   !.generate_now = TRUE,
                   !.question_set_id = @ + 1,
                   !.stop = "rerun"]

\* lines 481-488 without line 484
NewSetButtonKeepingEvaluations(s, pressed) ==
    IF ~pressed THEN s
    ELSE [s EXCEPT !.questions = <<>>,
                   !.user_answers = <<>>,
                   !.mode = "generate",
                   !.generate_now = TRUE,
                   !.question_set_id = @ + 1,
                   !.stop = "rerun"]

\* lines 481-488: the "Generate a New Set of Questions" button
NewSetButton(s, pressed) ==
    IF ~pressed THEN s
    ELSE [s EXCEPT !.questions = <<>>,
                   !.user_answers = <<>>,
                   !.evaluations = <<>>,
                   !.mode = "generate",
                   !.generate_now = TRUE,
                   !.question_set_id = @ + 1,
                   !.stop = "rerun"]

\* lines 297-492
AnswerSection(s, aud, tr, evaluate, eval_resp, newset) ==
    IF s.stop = "rerun" \/ s.questions = <<>> THEN s
    ELSE Then(RepairAnswers(s),
              LAMBDA s1 : Then(AnswerLoop(s1, 1, aud, tr),
              LAMBDA s2 : Then(EvaluateButton(s2, evaluate, eval_resp),
              LAMBDA s3 : IF s3.stop = "crash" THEN s3 ELSE NewSetButton(s3, newset))))

\* One execution of the script.  in: the widget values and the button
\* pressed; ext: what the services answer when called.
Script(s, in, ext) ==
    Then(UploadSection(s, in.file),
         LAMBDA s1 : Then(GenerationSection(s1, in.file, in.n, in.generate, ext.gen),
         LAMBDA s2 : AnswerSection(s2, in.audio, ext.tr, in.evaluate, ext.eval, in.newset)))

----------------------------------------------------------------------------
(* Executions of the script as actions *)

\* gen: the generation requests, each with the document text and count it
\* carried and the topic labels of the answer; transcribe: position ->
\* the service's answer and the text the field held when it came;
\* score: the scoring requests, each with the evaluations held before it.
NoCalls == [gen |-> <<>>, transcribe |-> <<>>, score |-> <<>>]
NoPre == [taken |-> FALSE]     \* no generate button pressed in or just before the execution

\* st.session_state as the execution finds it
Session ==
    [question_set_id |-> question_set_id, questions |-> questions,
     user_answers |-> user_answers, evaluations |-> evaluations,
     all_question_sets |-> all_question_sets, current_set_id |-> current_set_id,
     generate_now |-> generate_now, mode |-> mode, pdf_text |-> pdf_text,
     uploaded_file_name |-> uploaded_file_name, ans |-> ans,
     last_audio_hash |-> last_audio_hash,
     stop |-> "end", msgs |-> {}, calls |-> NoCalls, dictated_text |-> EmptyStr]

\* the widget values when nothing is touched
Widgets ==
    [file |-> uploaded_file, n |-> num_questions, audio |-> audio,
     generate |-> FALSE, evaluate |-> FALSE, newset |-> FALSE]

Snapshot(button) ==
    [taken |-> TRUE, button |-> button, questions |-> questions, user_answers |-> user_answers,
     evaluations |-> evaluations, all_question_sets |-> all_question_sets,
     question_set_id |-> question_set_id]

\* Streamlit forgets the value of a widget an execution does not put on
\* the page.  The text areas and audio inputs are keyed by round, so those
\* of another round are gone (and no execution reads their keys again);
\* the slider is on the page only while a file is in the uploader.
OfRound(f, qid) == [k \in { x \in DOMAIN f : x[1] = qid } |-> f[k]]

\* positions whose recording the loop will send to the transcription service
NeedsTranscription(s, aud) ==
    { i \in 1..Len(s.questions) :
        /\ AudioData(s, aud, i) # NoAudio
        /\ s.last_audio_hash[i] # Sha256(AudioData(s, aud, i)) }

WillGenerate(s, in) == in.file # NoFile /\ s.generate_now /\ ~in.generate

\* Run the script on session s with widget values in, for every answer
\* the services can give, and make its result the next state.
Execute(env, s, in, trig, p) ==
    \E g \in (IF WillGenerate(s, in) THEN env.gen ELSE {NoResponse}),
       e \in (IF in.evaluate THEN env.eval ELSE {NoResponse}),
       tr \in [NeedsTranscription(s, in.audio) -> TranscriptionOutcomes] :
        \E r \in {Script(s, in, [gen |-> g, tr |-> tr, eval |-> e])} :
            /\ \A k \in DOMAIN r.ans : Len(r.ans[k]) <= MaxLen
            /\ question_set_id' = r.question_set_id
            /\ questions' = r.questions
            /\ user_answers' = r.user_answers
            /\ evaluations' = r.evaluations
            /\ all_question_sets' = r.all_question_sets
            /\ current_set_id' = r.current_set_id
            /\ generate_now' = r.generate_now
            /\ mode' = r.mode
            /\ pdf_text' = r.pdf_text
            /\ uploaded_file_name' = r.uploaded_file_name
            /\ ans' = OfRound(r.ans, r.question_set_id)
            /\ last_audio_hash' = r.last_audio_hash
            /\ uploaded_file' = in.file
            /\ num_questions' = (IF in.file = NoFile THEN SliderMin ELSE in.n)
            /\ audio' = OfRound(in.audio, r.question_set_id)
            /\ stop' = r.stop
            /\ trigger' = trig
            /\ msgs' = r.msgs
            /\ calls' = r.calls
            /\ pre' = p

Idle == stop # "rerun"
Page == questions # <<>>          \* the answer section is on the page

UploadFile(env) ==
    /\ Idle
    /\ \E f \in env.files \ {uploaded_file} :
         Execute(env, Session, [Widgets EXCEPT !.file = f], <<"upload", 0>>, NoPre)

RemoveFile(env) ==
    /\ Idle
    /\ uploaded_file # NoFile
    /\ Execute(env, Session, [Widgets EXCEPT !.file = NoFile], <<"remove", 0>>, NoPre)

MoveSlider(env) ==
    /\ Idle
    /\ uploaded_file # NoFile
    /\ \E n \in (SliderMin..MaxSlider) \ {num_questions} :
         Execute(env, Session, [Widgets EXCEPT !.n = n], <<"slider", 0>>, NoPre)

PressGenerate(env) ==
    /\ Idle
    /\ uploaded_file # NoFile
    /\ question_set_id < MaxRounds
    /\ Execute(env, Session, [Widgets EXCEPT !.generate = TRUE], <<"generate", 0>>, Snapshot("generate"))

\* the user edits the text area of question i
TypeAnswer(env) ==
    /\ Idle
    /\ Page
    /\ \E i \in 1..Len(questions), text \in {EmptyStr, Str("a")} :
         /\ text # Field(Session, i)
         /\ Execute(env, SetField(Session, i, text), Widgets, <<"type", i>>, NoPre)

\* the user records (or records again) an answer to question i
RecordAudio(env) ==
    /\ Idle
    /\ Page
    /\ \E i \in 1..Len(questions), a \in Recordings :
         LET key == <<question_set_id, i>>
         IN  /\ AudioData(Session, audio, i) # a
             /\ Execute(env, Session,
                        [Widgets EXCEPT !.audio =
                            [k \in DOMAIN audio \cup {key} |->
                                IF k = key THEN a ELSE audio[k]]],
                        <<"record", i>>, NoPre)

\* the user deletes the recording of question i
ClearAudio(env) ==
    /\ Idle
    /\ Page
    /\ \E i \in 1..Len(questions) :
         LET key == <<question_set_id, i>>
         IN  /\ key \in DOMAIN audio
             /\ Execute(env, Session,
                        [Widgets EXCEPT !.audio =
                            [k \in DOMAIN audio \ {key} |-> audio[k]]],
                        <<"clear", i>>, NoPre)

PressEvaluate(env) ==
    /\ Idle
    /\ Page
    /\ Execute(env, Session, [Widgets EXCEPT !.evaluate = TRUE], <<"evaluate", 0>>, NoPre)

PressNewSet(env) ==
    /\ stop = "end"
    /\ Page
    /\ question_set_id < MaxRounds
    /\ Execute(env, Session, [Widgets EXCEPT !.newset = TRUE], <<"newset", 0>>, Snapshot("newset"))

\* st.rerun(): the script runs again at once, no widget touched
Rerun(env) ==
    /\ stop = "rerun"
    /\ Execute(env, Session, Widgets, <<"rerun", 0>>, pre)

Init ==
    /\ question_set_id = 0
    /\ questions = <<>>
    /\ user_answers = <<>>
    /\ evaluations = <<>>
    /\ all_question_sets = <<>>
    /\ current_set_id = NoSet
    /\ generate_now = FALSE
    /\ mode = "idle"
    /\ pdf_text = EmptyStr
    /\ uploaded_file_name = ""
    /\ ans = <<>>
    /\ last_audio_hash = [i \in 1..MaxItems |-> NoHash]
    /\ uploaded_file = NoFile
    /\ num_questions = SliderMin
    /\ audio = <<>>
    /\ stop = "end"
    /\ trigger = <<"start", 0>>
    /\ msgs = {}
    /\ calls = NoCalls
    /\ pre = NoPre

Next ==
    \/ UploadFile(Answering)
    \/ PressGenerate(Answering)
    \/ TypeAnswer(Answering)
    \/ RecordAudio(Answering)
    \/ ClearAudio(Answering)
    \/ PressEvaluate(Answering)
    \/ PressNewSet(Answering)
    \/ Rerun(Answering)

Spec == Init /\ [][Next]_vars

NextGen ==
    \/ UploadFile(Generating)
    \/ RemoveFile(Generating)
    \/ MoveSlider(Generating)
    \/ PressGenerate(Generating)
    \/ PressEvaluate(Generating)
    \/ PressNewSet(Generating)
    \/ Rerun(Generating)

SpecGen == Init /\ [][NextGen]_vars

NextScore ==
    \/ UploadFile(Scoring)
    \/ PressGenerate(Scoring)
    \/ PressEvaluate(Scoring)
    \/ PressNewSet(Scoring)
    \/ Rerun(Scoring)

SpecScore == Init /\ [][NextScore]_vars

----------------------------------------------------------------------------
(* score_short_answers on its own: called with any two argument lists *)

AnswerTexts == { EmptyStr, Str("a") }

\* the arguments of the call: any question list and any answer list, of
\* equal length or not
InitCall ==
    /\ questions \in SeqsUpTo({GoodItem}, MaxItems)
    /\ user_answers \in SeqsUpTo(AnswerTexts, MaxItems)
    /\ question_set_id = 0
    /\ evaluations = <<>>
    /\ all_question_sets = <<>>
    /\ current_set_id = NoSet
    /\ generate_now = FALSE
    /\ mode = "idle"
    /\ pdf_text = EmptyStr
    /\ uploaded_file_name = ""
    /\ ans = <<>>
    /\ last_audio_hash = [i \in 1..MaxItems |-> NoHash]
    /\ uploaded_file = NoFile
    /\ num_questions = SliderMin
    /\ audio = <<>>
    /\ stop = "end"
    /\ trigger = <<"start", 0>>
    /\ msgs = {}
    /\ calls = NoCalls
    /\ pre = NoPre

\* score_short_answers(user_answers, questions), for every answer of the
\* scoring service; evaluations holds the value returned
ScoreCall ==
    /\ trigger = <<"start", 0>>
    /\ \E resp \in AllScoringResponses :
         \E r \in {Evaluated(Session, score_short_answers(user_answers, questions, resp))} :
            /\ evaluations' = r.evaluations
            /\ msgs' = r.msgs
            /\ calls' = r.calls
            /\ trigger' = <<"call", 0>>
            /\ UNCHANGED <<question_set_id, questions, user_answers, all_question_sets,
                           current_set_id, generate_now, mode, pdf_text,
                           uploaded_file_name, ans, last_audio_hash, uploaded_file,
                           num_questions, audio, stop, pre>>

NextCall == ScoreCall

SpecCall == InitCall /\ [][NextCall]_vars

----------------------------------------------------------------------------
(* Properties *)

Shown(kind, i) == <<kind, i>> \in msgs

\* the text area of position i of round q in the map a
FieldAt(a, q, i) == IF <<q, i>> \in DOMAIN a THEN a[<<q, i>>] ELSE EmptyStr

\* the merge the dictation promises: the text the field held, one space,
\* one copy of the transcript; the transcript alone for an empty field
MergedOnce(field, transcript) ==
    IF Truthy(Strip(field)) THEN Join(Strip(field), transcript) ELSE transcript

\* the recordings transcribed to a non-empty text in the last execution
Transcribed ==
    { i \in DOMAIN calls.transcribe :
        /\ calls.transcribe[i].outcome.kind = "text"
        /\ Truthy(Strip(calls.transcribe[i].outcome.text)) }

\* C1: when a recording not processed before is transcribed to a non-empty
\* text B while the answer field of question i holds A, the answer stored
\* at the end of the execution (user_answers[i] and the text area) is
\* "A B", and B alone when the field was empty.
C1_DictationAppendsOnce ==
    \A i \in Transcribed :
        stop = "end" =>
            LET t == calls.transcribe[i]
                expected == MergedOnce(t.field, Strip(t.outcome.text))
            IN  /\ user_answers[i] = expected
                /\ FieldAt(ans, question_set_id, i) = expected

\* C2: in an execution that finds, for question i, a recording whose hash
\* is the stored last_audio_hash_<i>, the transcription service is not
\* called, the user is told so, and the stored answer (user_answers[i] and
\* the text area) is after the execution what it was before.
C2_RedeliveryIdempotent ==
    [][ \A i \in 1..Len(questions) :
          ( /\ stop' = "end"
            /\ question_set_id' = question_set_id
            /\ i <= Len(questions')
            /\ trigger' # <<"type", i>>
            /\ <<question_set_id, i>> \in DOMAIN audio'
            /\ Sha256(audio'[<<question_set_id, i>>]) = last_audio_hash[i] )
          => /\ i \notin DOMAIN calls'.transcribe
             /\ <<"already_transcribed", i>> \in msgs'
             /\ user_answers'[i] = user_answers[i]
             /\ FieldAt(ans', question_set_id, i) = FieldAt(ans, question_set_id, i)
      ]_vars

\* the execution that followed a press of the given generate button has
\* run the generation and it raised
GenerationFailedAfter(button) ==
    /\ trigger = <<"rerun", 0>>
    /\ pre.taken
    /\ pre.button = button
    /\ Shown("generation_failed", 0)

\* C3: when "Generate Questions" is pressed while a question set with
\* non-empty answers is active and the generation fails, questions,
\* user_answers, evaluations and all_question_sets are afterwards what
\* they were before the press.
C3_FailedGenerationKeepsSession ==
    ( /\ GenerationFailedAfter("generate")
      /\ pre.questions # <<>>
      /\ \E i \in 1..Len(pre.user_answers) : Truthy(pre.user_answers[i]) )
    => /\ questions = pre.questions
       /\ user_answers = pre.user_answers
       /\ evaluations = pre.evaluations
       /\ all_question_sets = pre.all_question_sets

\* the last execution pressed Evaluate while evaluations held earlier
\* results, and the scoring call failed
FailedReevaluation ==
    /\ Shown("scoring_failed", 0)
    /\ Len(calls.score) = 1
    /\ calls.score[1].prior # <<>>

\* C4 as stated: a failed evaluation leaves the results of the earlier
\* evaluation in evaluations.
C4_FailedEvaluationKeepsResults ==
    FailedReevaluation => evaluations = calls.score[1].prior

\* C4 as amended: a failed evaluation empties evaluations; the results of
\* the earlier evaluation are discarded.
C4_FailedEvaluationClearsResults ==
    FailedReevaluation => evaluations = <<>>

C4_Witness ==
    /\ FailedReevaluation
    /\ evaluations = <<>>
    /\ questions # <<>>

\* C5: whenever evaluations is non-empty, questions, user_answers and
\* evaluations have the same length.
C5_ArraysAligned ==
    evaluations # <<>> =>
        /\ Len(questions) = Len(user_answers)
        /\ Len(user_answers) = Len(evaluations)

\* C6: right after a successful generation user_answers is one empty text
\* per question and evaluations holds no result (any result it holds then
\* was produced before this generation, so for an earlier set).
C6_GenerationStartsCleanRound ==
    Shown("generated", 0) =>
        /\ user_answers = [k \in 1..Len(questions) |-> EmptyStr]
        /\ evaluations = <<>>

\* the non-empty topic labels of the questions kept in the generated sets
KeptTopics ==
    UNION { { all_question_sets[k].questions[j].topic :
                j \in 1..Len(all_question_sets[k].questions) } :
            k \in 1..Len(all_question_sets) } \ {EmptyStr}

\* the last execution ran a generation that saved no set
GenerationSavedNothing == calls.gen # <<>> /\ ~Shown("generated", 0)

\* C7: get_used_topics() is exactly the set of non-empty topic labels of
\* the questions kept in the generated sets, and a generation that saves
\* no set leaves it as it was.
C7_TopicLedger ==
    /\ get_used_topics = KeptTopics
    /\ (GenerationSavedNothing /\ pre.taken)
           => get_used_topics = UsedTopicsOf(pre.all_question_sets)

\* a set kept two questions of one topic, and a later response that raised
\* carried a topic the ledger does not hold
C7_Witness ==
    /\ GenerationSavedNothing
    /\ pre.taken
    /\ Shown("generation_failed", 0)
    /\ \E k \in 1..Len(all_question_sets) :
          Len(all_question_sets[k].topics) > Cardinality(get_used_topics)
    /\ calls.gen[1].offered \ get_used_topics # {}

\* C8: "Generate a New Set of Questions" adds one to question_set_id,
\* empties questions, user_answers and evaluations, requests a generation
\* and leaves all_question_sets alone; get_used_topics() after the press,
\* and after the generation that follows, contains what it held before.
C8_NewRound ==
    /\ trigger = <<"newset", 0>> =>
          /\ question_set_id = pre.question_set_id + 1
          /\ questions = <<>>
          /\ user_answers = <<>>
          /\ evaluations = <<>>
          /\ generate_now
          /\ all_question_sets = pre.all_question_sets
    /\ (pre.taken /\ pre.button = "newset") =>
          UsedTopicsOf(pre.all_question_sets) \subseteq get_used_topics

\* the generation that followed a new round, started with results on the
\* page, has added a topic to a ledger that already held one
C8_Witness ==
    /\ trigger = <<"rerun", 0>>
    /\ pre.taken
    /\ pre.button = "newset"
    /\ pre.evaluations # <<>>
    /\ Shown("generated", 0)
    /\ UsedTopicsOf(pre.all_question_sets) # {}
    /\ get_used_topics \ UsedTopicsOf(pre.all_question_sets) # {}

\* C9: no generation request is sent while the document text is empty.
C9_NoRequestWithoutText ==
    \A k \in 1..Len(calls.gen) : Truthy(calls.gen[k].doc)

WellFormed(q) == Truthy(q.question) /\ Truthy(q.answer_key)

\* C10: every question of the active set and of every set of the history
\* has a non-empty question and a non-empty answer_key.
C10_QuestionsWellFormed ==
    /\ \A j \in 1..Len(questions) : WellFormed(questions[j])
    /\ \A k \in 1..Len(all_question_sets) :
          \A j \in 1..Len(all_question_sets[k].questions) :
              WellFormed(all_question_sets[k].questions[j])

\* C11: a set saved from a list of JSON objects holds at most as many
\* questions as the slider asked for in the request.
C11_AtMostRequested ==
    (Shown("generated", 0) /\ calls.gen # <<>>) =>
        Len(questions) <= calls.gen[1].n

\* C12: the history is only ever appended to, one set per execution and
\* only by a generation that succeeded; its entries are never removed or
\* changed, and the k-th entry has set_id k-1.
C12_HistoryAppendOnly ==
    /\ [](\A k \in 1..Len(all_question_sets) : all_question_sets[k].set_id = k - 1)
    /\ [][ \/ all_question_sets' = all_question_sets
           \/ /\ Len(all_question_sets') = Len(all_question_sets) + 1
              /\ SubSeq(all_question_sets', 1, Len(all_question_sets)) = all_question_sets
              /\ <<"generated", 0>> \in msgs'
              /\ calls'.gen # <<>>
         ]_vars

\* a second set has just been appended behind the first
C12_Witness ==
    /\ Len(all_question_sets) = 2
    /\ Shown("generated", 0)
    /\ pre.taken
    /\ Len(pre.all_question_sets) = 1

\* C13: whenever the user can act, user_answers has one entry per question,
\* and every scoring request was made with as many answers as questions.
C13_AnswersMatchQuestions ==
    /\ Idle => Len(user_answers) = Len(questions)
    /\ \A k \in 1..Len(calls.score) : calls.score[k].answered = calls.score[k].asked

\* Evaluate has been pressed on a set of two questions that followed a set
\* of one
C13_Witness ==
    /\ Len(calls.score) = 1
    /\ calls.score[1].asked = 2
    /\ Len(all_question_sets) = 2
    /\ Len(all_question_sets[1].questions) = 1

\* C14: the percentage is computed only over a non-empty result list: every
\* total shown has a maximum above zero, and no execution divides by zero,
\* whatever the scoring call returned and however it failed.
C14_NoZeroMaximum ==
    /\ ~Shown("zero_division", 0)
    /\ \A m \in msgs : m[1] = "total_score" => m[2] > 0

\* Evaluate was pressed and the scoring call gave nothing to total: it
\* failed, or it returned the empty list
C14_Witness ==
    /\ trigger = <<"evaluate", 0>>
    /\ Len(calls.score) = 1
    /\ evaluations = <<>>
    /\ ~Shown("scoring_failed", 0)
    /\ stop = "end"

\* C15: no execution of the script ends in an uncaught exception, whatever
\* the services answer.
C15_NoUncaughtException ==
    stop # "crash"

\* a generation has just saved a new set: nothing has been typed or
\* recorded in this round yet
RoundJustStarted == trigger = <<"rerun", 0>> /\ Shown("generated", 0)

\* C16: what earlier rounds recorded for position i does not reach into a
\* new round: when a round has just started the answer field of every
\* position is empty, and the first recording submitted at position i is
\* sent to the transcription service, whatever was recorded at position i
\* in earlier rounds.
C16_RoundsPartitioned ==
    [][ RoundJustStarted =>
          \A i \in 1..Len(questions) :
              /\ FieldAt(ans, question_set_id, i) = EmptyStr
              /\ user_answers[i] = EmptyStr
              /\ trigger' = <<"record", i>> => i \in DOMAIN calls'.transcribe
      ]_vars

\* the recordings the last execution sent to the transcription service
\* without getting a text to merge: the call raised or returned blank text
NotTranscribed == DOMAIN calls.transcribe \ Transcribed

\* C17: no execution sends more than one generation request or more than
\* one scoring request, and a recording whose transcription failed or came
\* back empty is not sent again by an execution the user started by typing
\* or by pressing Evaluate.
C17_NoAutomaticRetry ==
    [][ /\ Len(calls'.gen) <= 1
        /\ Len(calls'.score) <= 1
        /\ \A i \in NotTranscribed :
              trigger'[1] \in {"type", "evaluate"} => i \notin DOMAIN calls'.transcribe
      ]_vars

\* C18: question_set_id changes only in the execution started by a press of
\* "Generate Questions" with a non-empty document text or of "Generate a
\* New Set of Questions", and then by exactly one; a press of "Generate
\* Questions" on a document with text always adds one, and the execution
\* that runs the generation, failed or not, leaves it alone.
C18_RoundCounter ==
    [][ /\ question_set_id' # question_set_id =>
              /\ question_set_id' = question_set_id + 1
              /\ \/ trigger' = <<"generate", 0>> /\ Truthy(pdf_text')
                 \/ trigger' = <<"newset", 0>>
        /\ (trigger' = <<"generate", 0>> /\ Truthy(pdf_text')) =>
              question_set_id' = question_set_id + 1
        /\ trigger' = <<"newset", 0>> => question_set_id' = question_set_id + 1
      ]_vars

\* the generation that followed the second press has failed, and the
\* counter stands at two
C18_Witness ==
    /\ GenerationFailedAfter("generate")
    /\ question_set_id = 2
    /\ pre.question_set_id = 1

C20_ActiveSetIsLastOfHistory ==
    /\ questions # <<>> =>
          /\ all_question_sets # <<>>
          /\ current_set_id = all_question_sets[Len(all_question_sets)].set_id
          /\ questions = all_question_sets[Len(all_question_sets)].questions
    /\ Len(all_question_sets) <= question_set_id

\* the first set is still active after the generation of a second round
\* failed: one set in the history, two rounds counted
C20_Witness ==
    /\ questions # <<>>
    /\ Shown("generation_failed", 0)
    /\ Len(all_question_sets) = 1
    /\ question_set_id = 2
    /\ current_set_id = 0

\* C21: the execution that follows a press of a generate button runs the
\* generation and leaves generate_now false, and no other execution sends
\* a generation request.
C21_ConsumedByNextRerun ==
    [][ /\ (stop = "rerun" /\ generate_now) =>
              /\ Len(calls'.gen) = 1
              /\ ~generate_now'
        /\ calls'.gen # <<>> =>
              /\ stop = "rerun"
              /\ trigger' = <<"rerun", 0>>
      ]_vars

====
